---------------------------- MODULE Spec2Model ----------------------------
(***************************************************************************)
(* jp_log: the three logging functions jpLog__info / jpLog__warn /         *)
(* jpLog__exit of jp_log.c and the macros of jp_log.h that expand to them. *)
(*                                                                         *)
(* A C string is a sequence of one-character strings (ESC stands for the   *)
(* byte \33).  A stream (stdout, stderr) is the sequence of the chunks the *)
(* fprintf calls wrote to it; a chunk carries, beside its text, the number *)
(* of the macro call that wrote it (history only, never read by the code). *)
(* Each thread of the calling program runs one macro call at a time, in    *)
(* the steps of the C code: evaluate the condition, vsprintf, fprintf,     *)
(* exit or return, evaluate the condition again.                           *)
(***************************************************************************)
EXTENDS Integers, Sequences, FiniteSets

\* ------------------------------------------------------------- bounds
\* Macro calls the calling program makes in one run.
MaxCalls == 2

\* ---------------------------------------------------------- constants
\* jp_log.c:22  #define MSGBUFF_SIZE 1024
MSGBUFF_SIZE == 1024

\* jp_log.c:102  exit(EXIT_FAILURE)
EXIT_FAILURE == 1

Threads == {1, 2}
MainThread == {1}

ESC == "ESC"

NoCall == [tier |-> "none", form |-> "none", expr |-> "none",
           text |-> <<>>, args |-> <<>>]
NoValue == -1

\* ------------------------------------------------------------ strings
Rep(c, k) == [i \in 1..k |-> c]

\* A variadic argument: a string (for %s) or an int (for %d).
ArgS(s) == [k |-> "s", s |-> s, d |-> 0]
ArgD(d) == [k |-> "d", s |-> <<>>, d |-> d]

DigitChar(d) == <<"0", "1", "2", "3", "4", "5", "6", "7", "8", "9">>[d + 1]

RECURSIVE Digits(_)
Digits(m) == IF m < 10 THEN <<DigitChar(m)>>
             ELSE Digits(m \div 10) \o <<DigitChar(m % 10)>>

\* What %d prints for an int.
Dec(m) == IF m < 0 THEN <<"-">> \o Digits(0 - m) ELSE Digits(m)

\* The text one conversion prints for the argument it consumes.  A missing
\* argument or one of the wrong type is undefined in C; those calls are not
\* among the inputs below and print "?" here.
Conv(spec, args, k) ==
    IF k > Len(args) \/ args[k].k # spec THEN <<"?">>
    ELSE IF spec = "s" THEN args[k].s ELSE Dec(args[k].d)

\* printf-style rendering of fmt[i..] with the arguments args[k..]:
\* literal text is copied, %s and %d consume one argument each, %% prints
\* one percent sign.
RECURSIVE Render(_, _, _, _)
Render(fmt, args, i, k) ==
    LET pcts == {j \in i..Len(fmt) : fmt[j] = "%"} IN
    IF pcts = {} THEN SubSeq(fmt, i, Len(fmt))
    ELSE LET j == CHOOSE x \in pcts : \A y \in pcts : x <= y
             lit == SubSeq(fmt, i, j - 1)
         IN  IF j = Len(fmt) THEN lit \o <<"%">>
             ELSE IF fmt[j + 1] \in {"s", "d"}
                  THEN lit \o Conv(fmt[j + 1], args, k)
                           \o Render(fmt, args, j + 2, k + 1)
             ELSE IF fmt[j + 1] = "%"
                  THEN lit \o <<"%">> \o Render(fmt, args, j + 2, k)
             ELSE lit \o <<"%", fmt[j + 1]>> \o Render(fmt, args, j + 2, k)

\* vsprintf(msgbuff, msg, ap): the bytes it stores, terminator not counted.
Vsprintf(fmt, args) == Render(fmt, args, 1, 1)

\* ------------------------------------------------- jp_log.c literals
\* Variant: the INFO line without the colour escapes around its tag.
INFO_FMT_bare ==
    <<"[", "I", "N", "F", "O", "]", "[", "%", "s", "]", "[", "%", "s", "]",
      "[", "%", "d", "]", ":", " ", "%", "s", "\n">>

\* "[\33[34;1mINFO\33[0m][%s][%s][%d]: %s\n"
INFO_FMT ==
    <<"[", ESC, "[", "3", "4", ";", "1", "m", "I", "N", "F", "O",
      ESC, "[", "0", "m", "]", "[", "%", "s", "]", "[", "%", "s", "]",
      "[", "%", "d", "]", ":", " ", "%", "s", "\n">>

\* "[\33[33;1mWARN\33[0m][%s][%s][%d]: %s\n"
WARN_FMT ==
    <<"[", ESC, "[", "3", "3", ";", "1", "m", "W", "A", "R", "N",
      ESC, "[", "0", "m", "]", "[", "%", "s", "]", "[", "%", "s", "]",
      "[", "%", "d", "]", ":", " ", "%", "s", "\n">>

\* "[\33[31;1mEXIT\33[0m][%s][%s][%d]: %s\n"
EXIT_FMT ==
    <<"[", ESC, "[", "3", "1", ";", "1", "m", "E", "X", "I", "T",
      ESC, "[", "0", "m", "]", "[", "%", "s", "]", "[", "%", "s", "]",
      "[", "%", "d", "]", ":", " ", "%", "s", "\n">>

LineFmt(tier) == CASE tier = "info" -> INFO_FMT
                   [] tier = "warn" -> WARN_FMT
                   [] tier = "exit" -> EXIT_FMT

\* The FILE * each function passes to fprintf.
StreamOf(tier) == IF tier = "info" THEN "stdout" ELSE "stderr"

\* ---------------------------------------------------- jp_log.h macros
\* Variant: JP_LOG_NOEXIT is not honoured.
Enabled_exitAlways(b, tier) == CASE tier = "info" -> ~b.NOINFO
                                 [] tier = "warn" -> ~b.NOWARN
                                 [] tier = "exit" -> TRUE

\* #ifndef JP_LOG_NOINFO / JP_LOG_NOWARN / JP_LOG_NOEXIT
Enabled(b, tier) == CASE tier = "info" -> ~b.NOINFO
                      [] tier = "warn" -> ~b.NOWARN
                      [] tier = "exit" -> ~b.NOEXIT

Guarded(c) == c.form \in {"If", "FmtIf"}
Plain(c) == c.form \in {"plain", "If"}

\* Variant: the message is handed over as the template itself.
jpLog_plain_asTemplate(msg) == [fmt |-> msg, args |-> <<>>]

\* jpLog_info(msg) -> jpLog__info(__FILE__,__func__,__LINE__,"%s",msg)
jpLog_plain(msg) == [fmt |-> <<"%", "s">>, args |-> <<ArgS(msg)>>]

\* jpLog_infoFmt(fmt,...) -> jpLog__info(__FILE__,__func__,__LINE__,fmt,...)
jpLog_fmt(fmt, args) == [fmt |-> fmt, args |-> args]

\* The template and arguments the macro call c hands to jpLog__<tier>.
MacroArgs(c) == IF Plain(c) THEN jpLog_plain(c.text)
                ELSE jpLog_fmt(c.text, c.args)

\* ------------------------------------------------ the calling program
\* __FILE__, __func__, __LINE__ of the call sites, one per tier.
Loc(tier) ==
    CASE tier = "info" -> [file |-> <<"a", ".", "c">>,
                           func |-> <<"m", "a", "i", "n">>, line |-> 10]
      [] tier = "warn" -> [file |-> <<"b", ".", "c">>,
                           func |-> <<"p", "a", "r", "s", "e">>, line |-> 22]
      [] tier = "exit" -> [file |-> <<"c", ".", "c">>,
                           func |-> <<"i", "n", "i", "t">>, line |-> 5]

\* Condition expressions: the constants 1 and 0, and a call of
\*   int flip(void) { return n = !n; }
\* whose value changes at every evaluation.
Exprs == {"1", "0", "flip()"}

\* One evaluation of a condition expression: its value and the caller's n.
Eval(expr, nv) == IF expr = "flip()" THEN [val |-> 1 - nv, n |-> 1 - nv]
                  ELSE IF expr = "1" THEN [val |-> 1, n |-> nv]
                  ELSE [val |-> 0, n |-> nv]

\* Messages of the plain forms: one holding format directives, the longest
\* that fits the buffer with its terminator, and one byte more.
PlainMsgs == { <<"%", "d", " ", "%", "s">>,
               Rep("a", MSGBUFF_SIZE - 1),
               Rep("a", MSGBUFF_SIZE) }

\* Templates and arguments of the Fmt forms: the second renders to
\* MSGBUFF_SIZE - 1 characters, the third to MSGBUFF_SIZE.
FmtInputs ==
    { [text |-> <<"v", "a", "l", "u", "e", "=", "%", "d">>,
       args |-> <<ArgD(42)>>],
      [text |-> <<"%", "s", "%", "d", "%", "%">>,
       args |-> <<ArgS(Rep("b", MSGBUFF_SIZE - 3)), ArgD(7)>>],
      [text |-> <<"%", "s", "%", "d", "%", "%">>,
       args |-> <<ArgS(Rep("b", MSGBUFF_SIZE - 3)), ArgD(-7)>>] }

Tiers == {"info", "warn", "exit"}

Calls ==
    { [tier |-> t, form |-> "plain", expr |-> "none", text |-> m,
       args |-> <<>>] : t \in Tiers, m \in PlainMsgs }
    \cup
    { [tier |-> t, form |-> "If", expr |-> e, text |-> m,
       args |-> <<>>] : t \in Tiers, e \in Exprs, m \in PlainMsgs }
    \cup
    { [tier |-> t, form |-> "Fmt", expr |-> "none", text |-> f.text,
       args |-> f.args] : t \in Tiers, f \in FmtInputs }
    \cup
    { [tier |-> t, form |-> "FmtIf", expr |-> e, text |-> f.text,
       args |-> f.args] : t \in Tiers, e \in Exprs, f \in FmtInputs }

\* What a vsprintf that writes past msgbuff can lead to: a fault while
\* writing; the frame's return data overwritten, so that the function
\* cannot return; or nothing that shows.
UBOutcomes == {"segv", "smash", "survive"}

\* -------------------------------------------------------------- state
VARIABLES
    build,      \* which of JP_LOG_NOINFO / NOWARN / NOEXIT the build defines
    isatty,     \* whether stdout / stderr is a terminal
    stdout,     \* chunks written to stdout
    stderr,     \* chunks written to stderr
    proc,       \* the process: running, exited (status) or killed
    pc,         \* per thread: where its macro call stands
    call,       \* per thread: the macro call it runs
    id,         \* per thread: the number of that call
    msgbuff,    \* per call frame: char msgbuff[MSGBUFF_SIZE]
    ub,         \* per thread: pending outcome of an overflowing vsprintf
    n,          \* per thread: the variable flip() toggles
    evals,      \* per thread: values of the evaluations of expr in this call
    yielded,    \* per thread: value of the macro expression
    ncalls      \* macro calls started so far

vars == <<build, isatty, stdout, stderr, proc, pc, call, id, msgbuff, ub,
          n, evals, yielded, ncalls>>

\* Variant: one static msgbuff for every call.
BufOf_static(t) == 1

\* char msgbuff[MSGBUFF_SIZE] has automatic storage: one per running call.
BufOf(t) == t

\* Every combination of the three build flags with both streams on a
\* terminal, and every combination of terminal and redirected streams with
\* no flag defined.
Init ==
    /\ build \in [NOINFO : BOOLEAN, NOWARN : BOOLEAN, NOEXIT : BOOLEAN]
    /\ isatty \in [stdout : BOOLEAN, stderr : BOOLEAN]
    /\ \/ isatty.stdout /\ isatty.stderr
       \/ ~build.NOINFO /\ ~build.NOWARN /\ ~build.NOEXIT
    /\ stdout = <<>>
    /\ stderr = <<>>
    /\ proc = [state |-> "running", status |-> 0, by |-> 0]
    /\ pc = [t \in Threads |-> "idle"]
    /\ call = [t \in Threads |-> NoCall]
    /\ id = [t \in Threads |-> 0]
    /\ msgbuff = [t \in Threads |-> <<>>]
    /\ ub = [t \in Threads |-> "none"]
    /\ n = [t \in Threads |-> 0]
    /\ evals = [t \in Threads |-> <<>>]
    /\ yielded = [t \in Threads |-> NoValue]
    /\ ncalls = 0

Running == proc.state = "running"

\* Variant: the text goes in front of what the stream holds.
Fputs_front(stream, chunk) == <<chunk>> \o stream

\* fprintf(stream, ...): the text goes to the end of the stream.
Fputs(stream, chunk) == Append(stream, chunk)

\* Variant: the macro yields the value that decided, without evaluating
\* expr again.
YieldValue_once(expr, nv, decided) ==
    [r |-> [val |-> decided, n |-> nv], again |-> FALSE]

\* The value the enabled guarded macro yields: expr, evaluated again.
\*   ( (expr)?jpLog_info(msg),expr:expr )
YieldValue(expr, nv, decided) == [r |-> Eval(expr, nv), again |-> TRUE]

\* ------------------------------------------------------------ actions
\* The calling program starts a macro call.
Call(t, c) ==
    /\ Running
    /\ pc[t] \in {"idle", "ret"}
    /\ ncalls < MaxCalls
    /\ ncalls' = ncalls + 1
    /\ call' = [call EXCEPT ![t] = c]
    /\ id' = [id EXCEPT ![t] = ncalls + 1]
    /\ evals' = [evals EXCEPT ![t] = <<>>]
    /\ yielded' = [yielded EXCEPT ![t] = NoValue]
    /\ pc' = [pc EXCEPT ![t] =
                IF ~Enabled(build, c.tier) THEN "discard"
                ELSE IF Guarded(c) THEN "test" ELSE "vsprintf"]
    /\ UNCHANGED <<build, isatty, stdout, stderr, proc, msgbuff, ub, n>>

\* A disabled macro: ( (void)(__VA_ARGS__) ) evaluates its arguments once.
Discard(t) ==
    /\ Running
    /\ pc[t] = "discard"
    /\ IF Guarded(call[t])
       THEN LET r == Eval(call[t].expr, n[t]) IN
            /\ n' = [n EXCEPT ![t] = r.n]
            /\ evals' = [evals EXCEPT ![t] = Append(@, r.val)]
       ELSE UNCHANGED <<n, evals>>
    /\ pc' = [pc EXCEPT ![t] = "ret"]
    /\ UNCHANGED <<build, isatty, stdout, stderr, proc, call, id, msgbuff,
                   ub, yielded, ncalls>>

\* (expr) ? ... : ...   the first evaluation of the condition.
Test(t) ==
    /\ Running
    /\ pc[t] = "test"
    /\ LET r == Eval(call[t].expr, n[t]) IN
       /\ n' = [n EXCEPT ![t] = r.n]
       /\ evals' = [evals EXCEPT ![t] = Append(@, r.val)]
       /\ pc' = [pc EXCEPT ![t] = IF r.val # 0 THEN "vsprintf" ELSE "yield"]
    /\ UNCHANGED <<build, isatty, stdout, stderr, proc, call, id, msgbuff,
                   ub, yielded, ncalls>>

\* jpLog__<tier>: va_start; vsprintf(msgbuff, msg, ap); va_end.
\* Text and terminator beyond MSGBUFF_SIZE bytes are written past the array.
VsprintfStep(t) ==
    /\ Running
    /\ pc[t] = "vsprintf"
    /\ LET a == MacroArgs(call[t])
           text == Vsprintf(a.fmt, a.args)
       IN  IF Len(text) + 1 <= MSGBUFF_SIZE
           THEN /\ msgbuff' = [msgbuff EXCEPT ![BufOf(t)] = text]
                /\ pc' = [pc EXCEPT ![t] = "fprintf"]
                /\ UNCHANGED <<proc, ub>>
           ELSE \E o \in UBOutcomes :
                  IF o = "segv"
                  THEN /\ proc' = [state |-> "killed", status |-> 0,
                                   by |-> id[t]]
                       /\ UNCHANGED <<msgbuff, pc, ub>>
                  ELSE /\ msgbuff' = [msgbuff EXCEPT ![BufOf(t)] = text]
                       /\ ub' = [ub EXCEPT ![t] = o]
                       /\ pc' = [pc EXCEPT ![t] = "fprintf"]
                       /\ UNCHANGED proc
    /\ UNCHANGED <<build, isatty, stdout, stderr, call, id, n, evals,
                   yielded, ncalls>>

\* jpLog__<tier>: fprintf(stdout or stderr, "[...][%s][%s][%d]: %s\n",
\*                        file, func, line, msgbuff).
FprintfStep(t) ==
    /\ Running
    /\ pc[t] = "fprintf"
    /\ LET tier == call[t].tier
           loc == Loc(tier)
           chunk == [text |-> Vsprintf(LineFmt(tier),
                                  <<ArgS(loc.file), ArgS(loc.func),
                                    ArgD(loc.line),
                                    ArgS(msgbuff[BufOf(t)])>>),
                     call |-> id[t]]
       IN  IF StreamOf(tier) = "stdout"
           THEN stdout' = Fputs(stdout, chunk) /\ UNCHANGED stderr
           ELSE stderr' = Fputs(stderr, chunk) /\ UNCHANGED stdout
    /\ pc' = [pc EXCEPT ![t] = IF call[t].tier = "exit" THEN "exit"
                               ELSE "return"]
    /\ UNCHANGED <<build, isatty, proc, call, id, msgbuff, ub, n, evals,
                   yielded, ncalls>>

\* jpLog__exit: exit(EXIT_FAILURE).
ExitStep(t) ==
    /\ Running
    /\ pc[t] = "exit"
    /\ proc' = [state |-> "exited", status |-> EXIT_FAILURE, by |-> id[t]]
    /\ UNCHANGED <<build, isatty, stdout, stderr, pc, call, id, msgbuff,
                   ub, n, evals, yielded, ncalls>>

\* jpLog__info / jpLog__warn: the closing brace.  msgbuff ends with the
\* frame; a frame whose return data vsprintf overwrote does not return.
ReturnStep(t) ==
    /\ Running
    /\ pc[t] = "return"
    /\ IF ub[t] = "smash"
       THEN /\ proc' = [state |-> "killed", status |-> 0, by |-> id[t]]
            /\ UNCHANGED <<pc, msgbuff, ub>>
       ELSE /\ pc' = [pc EXCEPT ![t] = IF Guarded(call[t]) THEN "yield"
                                       ELSE "ret"]
            /\ msgbuff' = [msgbuff EXCEPT ![BufOf(t)] = <<>>]
            /\ ub' = [ub EXCEPT ![t] = "none"]
            /\ UNCHANGED proc
    /\ UNCHANGED <<build, isatty, stdout, stderr, call, id, n, evals,
                   yielded, ncalls>>

\* ... , expr : expr   the value of the guarded macro.
Yield(t) ==
    /\ Running
    /\ pc[t] = "yield"
    /\ LET y == YieldValue(call[t].expr, n[t], evals[t][1]) IN
       /\ n' = [n EXCEPT ![t] = y.r.n]
       /\ evals' = [evals EXCEPT ![t] =
                      IF y.again THEN Append(@, y.r.val) ELSE @]
       /\ yielded' = [yielded EXCEPT ![t] = y.r.val]
    /\ pc' = [pc EXCEPT ![t] = "ret"]
    /\ UNCHANGED <<build, isatty, stdout, stderr, proc, call, id, msgbuff,
                   ub, ncalls>>

Step(t) ==
    \/ \E c \in Calls : Call(t, c)
    \/ Discard(t)
    \/ Test(t)
    \/ VsprintfStep(t)
    \/ FprintfStep(t)
    \/ ExitStep(t)
    \/ ReturnStep(t)
    \/ Yield(t)

\* A calling program with one thread.
Next == \E t \in MainThread : Step(t)

Spec == Init /\ [][Next]_vars

\* A calling program with two threads that run the unguarded forms
\* concurrently, every tier enabled, both streams on a terminal.  The
\* messages are those of Calls but for the two of MSGBUFF_SIZE - 1 bytes.
InitMT ==
    /\ Init
    /\ ~build.NOINFO /\ ~build.NOWARN /\ ~build.NOEXIT
    /\ isatty.stdout /\ isatty.stderr

CallsMT ==
    {c \in Calls : /\ ~Guarded(c)
                   /\ Len(Vsprintf(MacroArgs(c).fmt, MacroArgs(c).args))
                        # MSGBUFF_SIZE - 1}

StepMT(t) ==
    \/ \E c \in CallsMT : Call(t, c)
    \/ VsprintfStep(t)
    \/ FprintfStep(t)
    \/ ExitStep(t)
    \/ ReturnStep(t)

NextMT == \E t \in Threads : StepMT(t)

SpecMT == InitMT /\ [][NextMT]_vars

\* ===================================================================
\* Properties
\* ===================================================================
\* What the formulas below read is stated again here from the header and
\* the C source, apart from the operators of the model.

\* The tier of thread t's call was compiled out.
FlagDefined(t) ==
    \/ call[t].tier = "info" /\ build.NOINFO
    \/ call[t].tier = "warn" /\ build.NOWARN
    \/ call[t].tier = "exit" /\ build.NOEXIT

IsGuarded(t) == call[t].form \in {"If", "FmtIf"}
IsPlain(t) == call[t].form \in {"plain", "If"}

\* Thread t's call has reached its emission: the tier is compiled in and
\* the call is unguarded or its condition decided true.
Emitting(t) ==
    /\ call[t] # NoCall
    /\ ~FlagDefined(t)
    /\ IsGuarded(t) => (Len(evals[t]) >= 1 /\ evals[t][1] # 0)

\* Positions of the chunks call k wrote to stream s.
ByCall(s, k) == {i \in 1..Len(s) : s[i].call = k}

Dest(t) == IF call[t].tier = "info" THEN stdout ELSE stderr
Other(t) == IF call[t].tier = "info" THEN stderr ELSE stdout

TerminatedBy(t) == proc.state # "running" /\ proc.by = id[t]

\* The message of thread t's call as it must read once rendered.
ExpectedMsg(t) ==
    IF IsPlain(t) THEN call[t].text
    ELSE IF call[t].args = <<ArgD(42)>>
         THEN <<"v", "a", "l", "u", "e", "=", "4", "2">>
    ELSE IF call[t].args[2] = ArgD(7)
         THEN Rep("b", MSGBUFF_SIZE - 3) \o <<"7", "%">>
    ELSE Rep("b", MSGBUFF_SIZE - 3) \o <<"-", "7", "%">>

Tag(tier) == CASE tier = "info" -> <<"I", "N", "F", "O">>
               [] tier = "warn" -> <<"W", "A", "R", "N">>
               [] tier = "exit" -> <<"E", "X", "I", "T">>

\* ESC[34;1m blue, ESC[33;1m yellow, ESC[31;1m red (all bold); ESC[0m resets.
ColouredTag(tier) ==
    <<ESC, "[", "3">>
    \o (CASE tier = "info" -> <<"4">>
          [] tier = "warn" -> <<"3">>
          [] tier = "exit" -> <<"1">>)
    \o <<";", "1", "m">> \o Tag(tier) \o <<ESC, "[", "0", "m">>

Where(tier) ==
    CASE tier = "info" -> <<"[", "a", ".", "c", "]", "[", "m", "a", "i", "n",
                            "]", "[", "1", "0", "]">>
      [] tier = "warn" -> <<"[", "b", ".", "c", "]", "[", "p", "a", "r", "s",
                            "e", "]", "[", "2", "2", "]">>
      [] tier = "exit" -> <<"[", "c", ".", "c", "]", "[", "i", "n", "i", "t",
                            "]", "[", "5", "]">>

\* [<TAG>][<file>][<function>][<line>]: <message>\n with the tag as tag.
LineWith(tag, tier, msg) ==
    <<"[">> \o tag \o <<"]">> \o Where(tier) \o <<":", " ">> \o msg
    \o <<"\n">>

\* The line of thread t's call as jp_log.c writes it.
ExpectedLine(t) ==
    LineWith(ColouredTag(call[t].tier), call[t].tier, ExpectedMsg(t))

\* Thread t's call wrote exactly its one line, to its tier's stream.
WroteItsLine(t) ==
    /\ Cardinality(ByCall(Dest(t), id[t])) = 1
    /\ ByCall(Other(t), id[t]) = {}
    /\ \A i \in ByCall(Dest(t), id[t]) : Dest(t)[i].text = ExpectedLine(t)

WroteNothing(t) ==
    ByCall(stdout, id[t]) = {} /\ ByCall(stderr, id[t]) = {}

Fits(t) == Len(ExpectedMsg(t)) + 1 <= MSGBUFF_SIZE

HasEsc(text) == \E i \in 1..Len(text) : text[i] = ESC

StartsWith(text, pre) ==
    Len(text) >= Len(pre) /\ SubSeq(text, 1, Len(pre)) = pre

\* -------------------------------------------------------------------
\* C1: an enabled exit operation that reaches its emission writes exactly
\* one line to stderr and only then terminates the process with the
\* failure status; it never returns to its caller.
C1_ExitOneLineThenFailure ==
    \A t \in Threads :
        (Emitting(t) /\ call[t].tier = "exit") =>
            /\ pc[t] \notin {"return", "yield", "ret"}
            /\ TerminatedBy(t) =>
                 /\ proc.state = "exited"
                 /\ proc.status = EXIT_FAILURE
                 /\ WroteItsLine(t)

\* C1 for the messages that fit msgbuff (what remains true of jpLog__exit).
FitsExitOneLineThenFailure ==
    \A t \in Threads :
        (Emitting(t) /\ call[t].tier = "exit" /\ Fits(t)) =>
            /\ pc[t] \notin {"return", "yield", "ret"}
            /\ TerminatedBy(t) =>
                 /\ proc.state = "exited"
                 /\ proc.status = EXIT_FAILURE
                 /\ WroteItsLine(t)

\* -------------------------------------------------------------------
\* C2: an enabled info or warn operation that reaches its emission writes
\* exactly one line [<TAG>][<file>][<function>][<line>]: <message>\n,
\* INFO to stdout and WARN to stderr, never the other stream, and then
\* returns to its caller without terminating the process.
C2_InfoWarnOneLineThenReturn ==
    \A t \in Threads :
        (Emitting(t) /\ call[t].tier \in {"info", "warn"}) =>
            /\ ~TerminatedBy(t)
            /\ pc[t] \in {"return", "yield", "ret"} => WroteItsLine(t)
            /\ pc[t] \in {"vsprintf", "fprintf"} => WroteNothing(t)

\* C2 for the messages that fit msgbuff.
FitsInfoWarnOneLineThenReturn ==
    \A t \in Threads :
        (Emitting(t) /\ call[t].tier \in {"info", "warn"} /\ Fits(t)) =>
            /\ ~TerminatedBy(t)
            /\ pc[t] \in {"return", "yield", "ret"} => WroteItsLine(t)
            /\ pc[t] \in {"vsprintf", "fprintf"} => WroteNothing(t)

\* -------------------------------------------------------------------
\* C3: an enabled guarded form whose condition is true emits as the
\* unguarded form does, one whose condition is false writes nothing and
\* does not terminate the process, and either way the form yields the
\* value of the condition it was called with.
C3_GuardedYieldsCondition ==
    \A t \in Threads :
        (pc[t] = "ret" /\ IsGuarded(t) /\ ~FlagDefined(t)) =>
            /\ yielded[t] = evals[t][1]
            /\ evals[t][1] # 0 => WroteItsLine(t)
            /\ evals[t][1] = 0 => WroteNothing(t) /\ ~TerminatedBy(t)

\* C3 for the conditions whose value does not change between evaluations.
PureGuardedYieldsCondition ==
    \A t \in Threads :
        (pc[t] = "ret" /\ IsGuarded(t) /\ ~FlagDefined(t)
         /\ call[t].expr \in {"0", "1"}) =>
            /\ yielded[t] = evals[t][1]
            /\ evals[t][1] # 0 => WroteItsLine(t)
            /\ evals[t][1] = 0 => WroteNothing(t) /\ ~TerminatedBy(t)

\* -------------------------------------------------------------------
\* C4: rendering never writes outside the MSGBUFF_SIZE bytes of msgbuff:
\* the buffer holds at most MSGBUFF_SIZE - 1 characters and a terminator,
\* every line carries at most that much message, and no call faults.
C4_NoWriteOutsideBuffer ==
    /\ \A b \in Threads : Len(msgbuff[b]) + 1 <= MSGBUFF_SIZE
    /\ proc.state # "killed"
    /\ \A t \in Threads : \A i \in ByCall(Dest(t), id[t]) :
          Len(Dest(t)[i].text)
            <= Len(LineWith(ColouredTag(call[t].tier), call[t].tier,
                            Rep("x", MSGBUFF_SIZE - 1)))

\* -------------------------------------------------------------------
\* C5: a call of a tier that the build disables writes nothing to either
\* stream, never enters jpLog__<tier>, does not terminate the process and
\* yields no value, whatever its arguments and its condition.
C5_DisabledTierNoEffect ==
    \A t \in Threads :
        (call[t] # NoCall /\ FlagDefined(t)) =>
            /\ pc[t] \in {"discard", "ret"}
            /\ WroteNothing(t)
            /\ ~TerminatedBy(t)
            /\ msgbuff[t] = <<>>
            /\ yielded[t] = NoValue

\* A disabled exitIf with a true condition has completed; the process runs.
C5_Witness ==
    \E t \in Threads :
        /\ pc[t] = "ret" /\ call[t].tier = "exit" /\ build.NOEXIT
        /\ IsGuarded(t) /\ evals[t] = <<1>>
        /\ proc.state = "running"

C7_ColourOnlyOnTerminal ==
    /\ \A i \in 1..Len(stdout) : HasEsc(stdout[i].text) <=> isatty.stdout
    /\ \A i \in 1..Len(stderr) : HasEsc(stderr[i].text) <=> isatty.stderr

\* C7 as amended: every line starts with its tag wrapped in the colour
\* escapes, blue/bold INFO on stdout, yellow/bold WARN or red/bold EXIT on
\* stderr, whether or not the stream is a terminal.
C7_ColourAlways ==
    /\ \A i \in 1..Len(stdout) :
          StartsWith(stdout[i].text,
                     <<"[">> \o ColouredTag("info") \o <<"]", "[">>)
    /\ \A i \in 1..Len(stderr) :
          \/ StartsWith(stderr[i].text,
                        <<"[">> \o ColouredTag("warn") \o <<"]", "[">>)
          \/ StartsWith(stderr[i].text,
                        <<"[">> \o ColouredTag("exit") \o <<"]", "[">>)

\* A line with colour escapes is on a stream that is not a terminal.
C7_Witness ==
    \/ ~isatty.stdout /\ \E i \in 1..Len(stdout) : HasEsc(stdout[i].text)
    \/ ~isatty.stderr /\ \E i \in 1..Len(stderr) : HasEsc(stderr[i].text)

\* -------------------------------------------------------------------
\* C8: an enabled guarded form that returns has evaluated its condition
\* twice, once to decide the emission and once, after the emission if any,
\* for the value it yields, which is that of the second evaluation; a
\* disabled guarded form has evaluated it once.
C8_ConditionEvaluatedTwice ==
    \A t \in Threads :
        (call[t] # NoCall /\ IsGuarded(t)) =>
            /\ (pc[t] = "ret" /\ FlagDefined(t)) => Len(evals[t]) = 1
            /\ (pc[t] = "ret" /\ ~FlagDefined(t)) =>
                  /\ Len(evals[t]) = 2
                  /\ yielded[t] = evals[t][2]
                  /\ call[t].expr = "flip()" => evals[t][2] # evals[t][1]
                  /\ evals[t][1] # 0 <=> ~WroteNothing(t)
            /\ pc[t] \in {"vsprintf", "fprintf", "return", "exit", "yield"}
                  => Len(evals[t]) = 1

\* A guarded form has emitted and returned, and yields a value other than
\* the one that decided the emission.
C8_Witness ==
    \E t \in Threads :
        /\ pc[t] = "ret" /\ IsGuarded(t) /\ ~FlagDefined(t)
        /\ evals[t][1] # 0 /\ yielded[t] = 0
        /\ ~WroteNothing(t)

\* -------------------------------------------------------------------
\* C9: the line a plain form writes for a message that fits msgbuff has
\* that message character for character, format directives included.
C9_PlainVerbatim ==
    \A t \in Threads :
        (call[t] # NoCall /\ IsPlain(t)
         /\ Len(call[t].text) + 1 <= MSGBUFF_SIZE) =>
            /\ pc[t] = "fprintf" => msgbuff[t] = call[t].text
            /\ \A i \in ByCall(Dest(t), id[t]) :
                  Dest(t)[i].text =
                      LineWith(ColouredTag(call[t].tier), call[t].tier,
                               call[t].text)

\* A plain form has written a message that holds format directives.
C9_Witness ==
    \E t \in Threads :
        /\ IsPlain(t) /\ call[t].text = <<"%", "d", " ", "%", "s">>
        /\ ByCall(Dest(t), id[t]) # {}

\* -------------------------------------------------------------------
\* C10: with two threads running emissions concurrently, the line each
\* call writes carries the rendering of that call's own template and
\* arguments.
C10_OwnRendering ==
    \A t \in Threads :
        call[t] # NoCall =>
            \A i \in ByCall(Dest(t), id[t]) :
                Dest(t)[i].text = ExpectedLine(t)

\* Thread 1 has rendered and not yet written; thread 2, whose call started
\* later with another message, has rendered and written meanwhile.
C10_Witness ==
    /\ pc[1] = "fprintf"
    /\ id[1] < id[2]
    /\ ExpectedMsg(1) # ExpectedMsg(2)
    /\ ByCall(Dest(2), id[2]) # {}

=============================================================================
